---- MODULE Spec2Model ----
(***************************************************************************)
(* Licensy: the license entitlement data model (bot/models/models.py) and  *)
(* the lifecycle operations of the Licenses cog (bot/cogs/licenses.py).    *)
(*                                                                         *)
(* The tables are sets of rows (records).  Every ORM operation is an       *)
(* operator from a database value to [exc, db]: exc is "ok" or the name of *)
(* the exception the call raises, db the database the call leaves behind.  *)
(* The ORM opens no transaction, so a call that raises keeps whatever it   *)
(* wrote before raising.                                                   *)
(***************************************************************************)
EXTENDS Integers, Sequences, FiniteSets, TLC

VARIABLES
    reminders,        \* table reminders_settings: rows [id, acts]
    remSeq,           \* last auto-generated id of reminders_settings
    guilds,           \* table guilds: rows [id, reminder_activations, custom_prefix,
                      \*   custom_license_format, license_branding, timezone, language]
    roles,            \* table roles: rows [id, guild, tier_level, tier_power]
    packets,          \* table role_packets: rows [guild, name, default_role_duration]
    packetRoles,      \* table packet_roles: rows [role, role_packet, duration]
    licenses,         \* table licenses: rows [key, guild, reminder_activations, regenerating, role_packet, uses_left]
    licensedMembers,  \* table licensed_members: rows [member_id, license]
    licensedRoles,    \* table licensed_roles: rows [role, licensed_member, expiration]
    saving,           \* Role saves in flight: task -> [pc, role], between the duplicate query and the write
    adding,           \* PacketRole creates in flight: task -> [pc, pr, arg], between the count query and the write
    redeems,          \* the redeem commands that have run: rows [member, key, uses]
    loop,             \* the license_expiration_check loop: [state, ticks, errors, firstError]
    log,              \* number of records logger.critical has written
    port,             \* role removals issued to the platform: set of <<member, role>>
    prefix_cache,     \* Licensy._prefix_cache: set of <<guild id, prefix>>
    now,              \* the clock, in minutes
    last              \* the last completed call: [op, exc, arg, pre]

dbvars == <<reminders, remSeq, guilds, roles, packets, packetRoles, licenses,
            licensedMembers, licensedRoles>>
vars == <<reminders, remSeq, guilds, roles, packets, packetRoles, licenses,
          licensedMembers, licensedRoles, saving, adding, redeems, loop, log, port,
          prefix_cache, now, last>>

----------------------------------------------------------------------------
(* Bounds of the model *)

MaxRem == 3            \* reminders_settings rows ever created
RecursionLimit == 3    \* depth at which the interpreter raises RecursionError
MaxTime == 2           \* the clock runs 0..MaxTime
MaxTicks == 2          \* sweep ticks counted

(* Program constants *)

KEY_MIN_LENGTH == 14
MAXIMUM_USES_LEFT == 1000000
DefaultFirstActivation == 720

MaxPrefixLength == 10      \* Guild.custom_prefix max_length
MaxFormatLength == 100     \* Guild.custom_license_format max_length
MaxBrandLength == 50       \* Guild.license_branding max_length
DEFAULT_PREFIX == "."      \* config.DEFAULT_PREFIX

None == 0              \* NULL / a missing keyword argument
NoPacket == <<>>       \* role_packet = NULL

Tasks == {1, 2}         \* two commands may be in flight at once
Idle == [pc |-> "idle", role |-> [id |-> 0, guild |-> 0, tier_level |-> 0, tier_power |-> 0]]

NotAdding == [pc |-> "idle", pr |-> [role |-> 0, role_packet |-> <<>>, duration |-> 0],
              arg |-> [role |-> 0, role_packet |-> <<>>, given |-> FALSE, duration |-> 0,
                       held |-> 0, present |-> FALSE]]

GuildIds == {123, 456}  \* the guild ids of the tests
RemIds == 1..MaxRem

DefaultActs == <<DefaultFirstActivation, 0, 0, 0, 0>>

(* The database as one value, so that operations compose. *)
DB == [reminders |-> reminders, remSeq |-> remSeq, guilds |-> guilds,
       roles |-> roles, packets |-> packets, packetRoles |-> packetRoles,
       licenses |-> licenses, licensedMembers |-> licensedMembers,
       licensedRoles |-> licensedRoles]

EmptyDB == [reminders |-> {}, remSeq |-> 0, guilds |-> {}, roles |-> {},
            packets |-> {}, packetRoles |-> {}, licenses |-> {},
            licensedMembers |-> {}, licensedRoles |-> {}]

SetDB(d) ==
    /\ reminders' = d.reminders
    /\ remSeq' = d.remSeq
    /\ guilds' = d.guilds
    /\ roles' = d.roles
    /\ packets' = d.packets
    /\ packetRoles' = d.packetRoles
    /\ licenses' = d.licenses
    /\ licensedMembers' = d.licensedMembers
    /\ licensedRoles' = d.licensedRoles

SetDBInit ==
    /\ reminders = {}
    /\ remSeq = 0
    /\ guilds = {}
    /\ roles = {}
    /\ packets = {}
    /\ packetRoles = {}
    /\ licenses = {}
    /\ licensedMembers = {}
    /\ licensedRoles = {}

Ok(d) == [exc |-> "ok", db |-> d]
Raise(e, d) == [exc |-> e, db |-> d]

----------------------------------------------------------------------------
(* LicenseFormatter (bot/utils/licence_helper.py)                           *)
(*                                                                          *)
(* A string is a sequence of one-character strings.  Python integers are    *)
(* unbounded: a permutation count is a sequence of base-10000 digits, least *)
(* significant first, without leading zeros.                                *)

Base == 10000
One == <<1>>

RECURSIVE BigMulCarry(_, _, _)
\* n * k + carry, for a small k
BigMulCarry(n, k, carry) ==
    IF n = <<>> THEN (IF carry = 0 THEN <<>> ELSE <<carry>>)
    ELSE LET v == n[1] * k + carry
         IN <<v % Base>> \o BigMulCarry(Tail(n), k, v \div Base)

BigMul(n, k) == BigMulCarry(n, k, 0)

RECURSIVE BigGreater(_, _, _)
\* n > m for numbers of the same length, compared from digit i downwards
BigGreater(n, m, i) ==
    IF i = 0 THEN FALSE
    ELSE IF n[i] # m[i] THEN n[i] > m[i]
    ELSE BigGreater(n, m, i - 1)

\* n >= m
BigGE(n, m) ==
    IF Len(n) # Len(m) THEN Len(n) > Len(m)
    ELSE n = m \/ BigGreater(n, m, Len(n))

default_license_format ==
    <<"{", "b", "r", "a", "n", "d", "i", "n", "g", "}",
      "A", "A", "A", "A", "A", "-", "A", "A", "A", "A", "A", "-",
      "A", "A", "A", "A", "A", "-", "A", "A", "A", "A", "A", "-",
      "A", "A", "A", "A", "A">>
min_permutation_count == <<0, 0, 0, 0, 0, 0, 1>>    \* 10**24
min_license_length == 14

\* The token "{branding}"
BrandingToken == <<"{", "b", "r", "a", "n", "d", "i", "n", "g", "}">>

\* The size of a placeholder's charset without the symbols (S is a literal).
CharsetSize_NoSymbols(c) ==
    CASE c = "D" -> 10
      [] c = "U" -> 26
      [] c = "L" -> 26
      [] c = "A" -> 62
      [] OTHER -> 0

\* len(_mapping.get(c)): digits, ascii_uppercase, ascii_lowercase,
\* ascii_letters + digits, punctuation; 0 for a character that is not mapped.
CharsetSize(c) ==
    CASE c = "D" -> 10
      [] c = "U" -> 26
      [] c = "L" -> 26
      [] c = "A" -> 62
      [] c = "S" -> 32
      [] OTHER -> 0

IsPrefix(p, f) == Len(p) <= Len(f) /\ SubSeq(f, 1, Len(p)) = p

\* The "{branding}" token occurs in f at index i.
TokenAt(f, i) ==
    /\ i + Len(BrandingToken) - 1 <= Len(f)
    /\ SubSeq(f, i, i + Len(BrandingToken) - 1) = BrandingToken

RECURSIVE StrReplaceBranding(_)
\* license_format.replace("{branding}", ""): every occurrence, left to right;
\* a string without the token is returned as it is.
StrReplaceBranding(f) ==
    IF \A i \in 1..Len(f) : ~TokenAt(f, i) THEN f
    ELSE IF IsPrefix(BrandingToken, f)
    THEN StrReplaceBranding(SubSeq(f, Len(BrandingToken) + 1, Len(f)))
    ELSE <<f[1]>> \o StrReplaceBranding(Tail(f))

RECURSIVE PermutationsOver(_, _, _)
\* the loop of get_format_permutations, at character i of f
PermutationsOver(f, i, permutations) ==
    IF i > Len(f) \/ permutations = <<>> THEN permutations
    ELSE PermutationsOver(f, i + 1,
            IF CharsetSize(f[i]) # 0 THEN BigMul(permutations, CharsetSize(f[i]))
            ELSE permutations)

\* LicenseFormatter.get_format_permutations
get_format_permutations(license_format) ==
    PermutationsOver(StrReplaceBranding(license_format), 1, One)

\* LicenseFormatter.is_secure
is_secure(license_format) ==
    IF Len(license_format) < min_license_length THEN FALSE
    ELSE BigGE(get_format_permutations(license_format), min_permutation_count)

\* string.digits, ascii_uppercase, ascii_lowercase, punctuation ("grave" is
\* the grave accent, which a string of this language cannot hold)
Digits == {"0", "1", "2", "3", "4", "5", "6", "7", "8", "9"}
Uppercase == {"A", "B", "C", "D", "E", "F", "G", "H", "I", "J", "K", "L", "M",
              "N", "O", "P", "Q", "R", "S", "T", "U", "V", "W", "X", "Y", "Z"}
Lowercase == {"a", "b", "c", "d", "e", "f", "g", "h", "i", "j", "k", "l", "m",
              "n", "o", "p", "q", "r", "s", "t", "u", "v", "w", "x", "y", "z"}
Punctuation == {"!", "\"", "#", "$", "%", "&", "'", "(", ")", "*", "+", ",", "-",
                ".", "/", ":", ";", "<", "=", ">", "?", "@", "[", "\\", "]", "^",
                "_", "grave", "{", "|", "}", "~"}

\* _mapping.get(c): the charset of a placeholder, {} for any other character
Charset(c) ==
    CASE c = "D" -> Digits
      [] c = "U" -> Uppercase
      [] c = "L" -> Lowercase
      [] c = "A" -> Uppercase \cup Lowercase \cup Digits
      [] c = "S" -> Punctuation
      [] OTHER -> {}

PlaceholderChars == {"D", "U", "L", "A", "S"}

RECURSIVE StrSplitBranding(_, _)
\* license_format.split("{branding}"): cur is the segment read so far
StrSplitBranding(f, cur) ==
    IF f = <<>> THEN <<cur>>
    ELSE IF IsPrefix(BrandingToken, f)
    THEN <<cur>> \o StrSplitBranding(SubSeq(f, Len(BrandingToken) + 1, Len(f)), <<>>)
    ELSE StrSplitBranding(Tail(f), Append(cur, f[1]))

\* The inner loop of parse_format: pick[c] is what secrets.choice draws for
\* the placeholder c.
ExpandSegment(split, pick) ==
    [i \in 1..Len(split) |->
        IF Charset(split[i]) # {} THEN pick[split[i]] ELSE split[i]]

RECURSIVE JoinSegments(_)
\* "".join(sublist) if len(sublist) > 0 else "{branding}", then "".join
JoinSegments(temp) ==
    IF temp = <<>> THEN <<>>
    ELSE (IF Len(temp[1]) > 0 THEN temp[1] ELSE BrandingToken) \o JoinSegments(Tail(temp))

\* The index of the first "}" of s at or after i, 0 when there is none.
RECURSIVE FindClose(_, _)
FindClose(s, i) ==
    IF i > Len(s) THEN 0
    ELSE IF s[i] = "}" THEN i
    ELSE FindClose(s, i + 1)

RECURSIVE StrFormat(_, _)
\* built_string.format(branding=branding), for strings whose replacement
\* fields are plain names: "{{" and "}}" give one brace, "{branding}" gives the
\* branding, another name raises KeyError (IndexError when it is empty or a
\* number), a brace without its partner raises ValueError.
StrFormat(s, branding) ==
    IF s = <<>> THEN [exc |-> "ok", out |-> <<>>]
    ELSE IF s[1] = "{" /\ Len(s) >= 2 /\ s[2] = "{"
    THEN LET r == StrFormat(SubSeq(s, 3, Len(s)), branding)
         IN [exc |-> r.exc, out |-> <<"{">> \o r.out]
    ELSE IF s[1] = "{"
    THEN LET j == FindClose(s, 2)
             name == SubSeq(s, 2, j - 1)
         IN IF j = 0 \/ \E i \in 1..Len(name) : name[i] = "{"
            THEN [exc |-> "ValueError", out |-> <<>>]
            ELSE IF name = SubSeq(BrandingToken, 2, Len(BrandingToken) - 1)
            THEN LET r == StrFormat(SubSeq(s, j + 1, Len(s)), branding)
                 IN [exc |-> r.exc, out |-> branding \o r.out]
            ELSE IF \A i \in 1..Len(name) : name[i] \in Digits
            THEN [exc |-> "IndexError", out |-> <<>>]
            ELSE [exc |-> "KeyError", out |-> <<>>]
    ELSE IF s[1] = "}" /\ Len(s) >= 2 /\ s[2] = "}"
    THEN LET r == StrFormat(SubSeq(s, 3, Len(s)), branding)
         IN [exc |-> r.exc, out |-> <<"}">> \o r.out]
    ELSE IF s[1] = "}"
    THEN [exc |-> "ValueError", out |-> <<>>]
    ELSE LET r == StrFormat(Tail(s), branding)
         IN [exc |-> r.exc, out |-> <<s[1]>> \o r.out]

\* LicenseFormatter.parse_format
parse_format(license_format, branding, pick) ==
    LET lf == IF license_format = <<>> THEN default_license_format ELSE license_format
        license_format_split == StrSplitBranding(lf, <<>>)
        temp == [i \in 1..Len(license_format_split) |->
                    ExpandSegment(license_format_split[i], pick)]
    IN StrFormat(JoinSegments(temp), branding)

\* LicenseFormatter.generate_single
generate_single(license_format, branding, pick) ==
    parse_format(license_format, branding, pick)

----------------------------------------------------------------------------
(* ReminderActivations *)

get_all_activations(row) == row.acts

\* _check_valid_first_activation returns the comparison and raises nothing.
check_valid_first_activation(acts) == acts[1] > 0

\* _check_activation_ranges: FieldError on a negative activation.
check_activation_ranges(acts) ==
    IF \E i \in 1..Len(acts) : acts[i] < 0 THEN "FieldError" ELSE "ok"

positive_activations(acts) == SelectSeq(acts, LAMBDA a : a > 0)

\* The order check without its branch for equal neighbours.
check_valid_order_activations_NoDup(acts) ==
    LET p == positive_activations(acts) IN
    IF \E i \in 1..(Len(p) - 1) : p[i] < p[i + 1]
    THEN "FieldError" ELSE "ok"

\* _check_valid_order_activations: adjacent pairs of the positive activations.
check_valid_order_activations(acts) ==
    LET p == positive_activations(acts) IN
    IF \E i \in 1..(Len(p) - 1) : p[i] = p[i + 1] \/ p[i] < p[i + 1]
    THEN "FieldError" ELSE "ok"

\* _post_save: the three checks, in order, after the row was written.
Reminder_post_save(acts) ==
    IF check_activation_ranges(acts) # "ok" THEN "FieldError"
    ELSE check_valid_order_activations(acts)

\* ReminderActivations.create: INSERT, then _post_save.
ReminderActivations_create(d, acts) ==
    LET id == d.remSeq + 1
        d1 == [d EXCEPT !.reminders = @ \cup {[id |-> id, acts |-> acts]},
                        !.remSeq = id]
    IN [exc |-> Reminder_post_save(acts), db |-> d1, id |-> id]

\* reminder_activations.save() on a stored row: UPDATE, then _post_save.
ReminderActivations_save(d, rid, acts) ==
    LET d1 == [d EXCEPT !.reminders =
                  {r \in @ : r.id # rid} \cup {[id |-> rid, acts |-> acts]}]
    IN [exc |-> Reminder_post_save(acts), db |-> d1]

\* on_delete=RESTRICT of Guild.reminder_activations and License.reminder_activations
RemReferenced(d, rid) ==
    \/ \E g \in d.guilds : g.reminder_activations = rid
    \/ \E l \in d.licenses : l.reminder_activations = rid

\* ReminderActivations.delete: DELETE of the row, refused while it is referenced.
ReminderActivations_delete(d, rid) ==
    IF RemReferenced(d, rid) THEN Raise("IntegrityError", d)
    ELSE Ok([d EXCEPT !.reminders = {r \in @ : r.id # rid}])

----------------------------------------------------------------------------
(* Guild *)

\* A new Guild object: the given id and schedule, the default of every other field.
GuildDefaults(gid, rid) ==
    [id |-> gid, reminder_activations |-> rid, custom_prefix |-> "",
     custom_license_format |-> <<>>, license_branding |-> "", timezone |-> 0,
     language |-> "en"]

\* INSERT INTO guilds: primary key, foreign key and one-to-one uniqueness.
Guild_insert(d, gid, rid) ==
    IF \/ \E g \in d.guilds : g.id = gid
       \/ \A r \in d.reminders : r.id # rid
       \/ \E g \in d.guilds : g.reminder_activations = rid
    THEN Raise("IntegrityError", d)
    ELSE Ok([d EXCEPT !.guilds = @ \cup {GuildDefaults(gid, rid)}])

\* Guild.create that creates a schedule whether or not the caller passes one.
Guild_create_AlwaysNew(d, gid, rid) ==
    LET c == ReminderActivations_create(d, DefaultActs) IN
    IF c.exc # "ok" THEN Raise(c.exc, c.db) ELSE Guild_insert(c.db, gid, c.id)

\* Guild.create: a schedule is created first unless the caller passes one.
Guild_create(d, gid, rid) ==
    IF rid = None
    THEN LET c == ReminderActivations_create(d, DefaultActs) IN
         IF c.exc # "ok" THEN Raise(c.exc, c.db) ELSE Guild_insert(c.db, gid, c.id)
    ELSE Guild_insert(d, gid, rid)

\* ON DELETE CASCADE / SET NULL below a deleted guild, as the database applies them.
CascadeGuild(d, gid) ==
    LET goneRoles == {r.id : r \in {x \in d.roles : x.guild = gid}}
        goneLic == {l.key : l \in {x \in d.licenses : x.guild = gid}}
        keptLM == {m \in d.licensedMembers : m.license \notin goneLic}
    IN [d EXCEPT
          !.guilds = {g \in @ : g.id # gid},
          !.roles = {r \in @ : r.guild # gid},
          !.packets = {p \in @ : p.guild # gid},
          !.packetRoles = {pr \in @ : pr.role \notin goneRoles /\ pr.role_packet[1] # gid},
          !.licenses = {IF l.role_packet # NoPacket /\ l.role_packet[1] = gid
                        THEN [l EXCEPT !.role_packet = NoPacket] ELSE l
                        : l \in {x \in @ : x.guild # gid}},
          !.licensedMembers = keptLM,
          !.licensedRoles = {lr \in @ : lr.role \notin goneRoles
                                        /\ lr.licensed_member \in keptLM}]

\* Guild.delete: DELETE of the row (with its cascades), then _post_delete.
Guild_delete(d, gid) ==
    LET g == CHOOSE x \in d.guilds : x.id = gid
    IN ReminderActivations_delete(CascadeGuild(d, gid), g.reminder_activations)

\* i18n_handler.LANGUAGES
LANGUAGES == {"en", "hr"}

\* range(-12, 15)
TimezoneRange == -12..14

\* Guild._pre_save
Guild_pre_save(g) ==
    IF MaxPrefixLength < Len(g.custom_prefix) THEN "FieldError"
    ELSE IF g.custom_license_format # <<>> /\ ~is_secure(g.custom_license_format)
    THEN "FieldError"
    ELSE IF MaxBrandLength < Len(g.license_branding) THEN "FieldError"
    ELSE IF g.timezone \notin TimezoneRange THEN "FieldError"
    ELSE IF g.language \notin LANGUAGES THEN "FieldError"
    ELSE "ok"

\* max_length of the three CharFields.  The database (SQLite) does not enforce
\* it; a build of the ORM with field validators raises ValidationError when a
\* value is written, a build without them writes the value.
OverMaxLength(g) ==
    \/ MaxPrefixLength < Len(g.custom_prefix)
    \/ MaxFormatLength < Len(g.custom_license_format)
    \/ MaxBrandLength < Len(g.license_branding)

\* UPDATE guilds ... WHERE id = g.id; no row matches a guild that is not stored.
Guild_update(d, g, validators) ==
    IF validators /\ OverMaxLength(g) THEN Raise("ValidationError", d)
    ELSE Ok([d EXCEPT !.guilds = {IF x.id = g.id THEN g ELSE x : x \in @}])

\* guild.save() on a stored guild: _pre_save, then UPDATE.
Guild_save(d, g, validators) ==
    IF Guild_pre_save(g) # "ok" THEN Raise(Guild_pre_save(g), d)
    ELSE Guild_update(d, g, validators)

\* Guild.get(id=gid).update(field=value): an UPDATE query, without _pre_save.
Guild_get_update(d, gid, field, value, validators) ==
    IF \A x \in d.guilds : x.id # gid THEN Ok(d)
    ELSE LET g == CHOOSE x \in d.guilds : x.id = gid
         IN Guild_update(d, [g EXCEPT ![field] = value], validators)

----------------------------------------------------------------------------
(* Licensy: the prefix cache *)

\* guild.id in self._prefix_cache
Cached(cache, gid) == \E c \in cache : c[1] = gid

\* update_prefix_cache: self._prefix_cache[guild_id] = new_prefix
update_prefix_cache(cache, gid, new_prefix) ==
    {c \in cache : c[1] # gid} \cup {<<gid, new_prefix>>}

\* _populate_prefix_cache: the cache rebuilt from the guilds table.
populate_prefix_cache(d) == {<<g.id, g.custom_prefix>> : g \in d.guilds}

\* get_guild_prefix: the prefix returned and the cache afterwards.  guild is a
\* guild id or None (a direct message).
get_guild_prefix(d, cache, guild) ==
    IF guild = None THEN [prefix |-> DEFAULT_PREFIX, cache |-> cache]
    ELSE IF Cached(cache, guild)
    THEN LET cached_prefix == (CHOOSE c \in cache : c[1] = guild)[2]
         IN [prefix |-> IF cached_prefix # "" THEN cached_prefix ELSE DEFAULT_PREFIX,
             cache |-> cache]
    ELSE IF \A g \in d.guilds : g.id # guild
    THEN [prefix |-> DEFAULT_PREFIX, cache |-> cache]
    ELSE LET fetched_prefix == (CHOOSE g \in d.guilds : g.id = guild).custom_prefix
         IN [prefix |-> IF fetched_prefix # "" THEN fetched_prefix ELSE DEFAULT_PREFIX,
             cache |-> update_prefix_cache(cache, guild, fetched_prefix)]

----------------------------------------------------------------------------
(* License *)

\* The checks without the last branch (regenerating with several uses).
License_field_checks_NoMix(lic) ==
    IF Len(lic.key) < KEY_MIN_LENGTH THEN "FieldError"
    ELSE IF lic.uses_left < 0 THEN "FieldError"
    ELSE IF lic.uses_left > MAXIMUM_USES_LEFT THEN "FieldError"
    ELSE "ok"

\* The checks at the head of License._pre_save.
License_field_checks(lic) ==
    IF Len(lic.key) < KEY_MIN_LENGTH THEN "FieldError"
    ELSE IF lic.uses_left < 0 THEN "FieldError"
    ELSE IF lic.uses_left > MAXIMUM_USES_LEFT THEN "FieldError"
    ELSE IF lic.regenerating /\ lic.uses_left > 1 THEN "FieldError"
    ELSE "ok"

\* Model.clone(pk=new_key): a copy of every field under the new key; the cloned
\* schedule object has not been saved, so it has no row and no id.
License_clone(lic, new_key) ==
    [lic EXCEPT !.key = new_key, !.reminder_activations = None]

\* An INSERT that replaces the stored row of the same key instead of failing.
License_insert_Replace(d, lic) ==
    Ok([d EXCEPT !.licenses = {l \in @ : l.key # lic.key} \cup {lic}])

\* INSERT INTO licenses: primary key, foreign keys, one-to-one uniqueness.
License_insert(d, lic) ==
    IF \/ \E l \in d.licenses : l.key = lic.key
       \/ \A g \in d.guilds : g.id # lic.guild
       \/ \A r \in d.reminders : r.id # lic.reminder_activations
       \/ \E l \in d.licenses : l.reminder_activations = lic.reminder_activations
       \/ (lic.role_packet # NoPacket /\ \A p \in d.packets :
              <<p.guild, p.name>> # lic.role_packet)
    THEN Raise("IntegrityError", d)
    ELSE Ok([d EXCEPT !.licenses = @ \cup {lic}])

\* UPDATE licenses ... WHERE key = lic.key
License_update(d, lic) ==
    Ok([d EXCEPT !.licenses = {l \in @ : l.key # lic.key} \cup {lic}])

RECURSIVE License_save(_, _, _, _, _)
RECURSIVE License_pre_save(_, _, _, _)

\* License._pre_save.  gen[depth] is the key generate_single draws at that depth.
License_pre_save(d, lic, gen, depth) ==
    IF License_field_checks(lic) # "ok" THEN Raise(License_field_checks(lic), d)
    ELSE IF lic.regenerating /\ lic.uses_left = 0
    THEN LET new_license == License_clone(lic, gen[depth])
         IN License_save(d, new_license, FALSE, gen, depth + 1)
    ELSE Ok(d)

\* Model.save: _pre_save, then INSERT (a new object) or UPDATE (a stored one).
\* A chain of nested saves deeper than the interpreter's stack raises RecursionError.
License_save(d, lic, stored, gen, depth) ==
    IF depth > RecursionLimit THEN Raise("RecursionError", d)
    ELSE LET p == License_pre_save(d, lic, gen, depth) IN
         IF p.exc # "ok" THEN p
         ELSE IF stored THEN License_update(p.db, lic)
         ELSE License_insert(p.db, lic)

\* License.create: a default schedule is created first unless the caller passes one.
License_create(d, lic, gen) ==
    IF lic.reminder_activations = None
    THEN LET c == ReminderActivations_create(d, DefaultActs) IN
         IF c.exc # "ok" THEN Raise(c.exc, c.db)
         ELSE License_save(c.db, [lic EXCEPT !.reminder_activations = c.id], FALSE, gen, 1)
    ELSE License_save(d, lic, FALSE, gen, 1)

\* ON DELETE CASCADE below a deleted license.
CascadeLicense(d, key) ==
    LET keptLM == {m \in d.licensedMembers : m.license # key}
    IN [d EXCEPT !.licenses = {l \in @ : l.key # key},
                 !.licensedMembers = keptLM,
                 !.licensedRoles = {lr \in @ : lr.licensed_member \in keptLM}]

\* License.delete: DELETE of the row (with its cascades), then _post_delete.
License_delete(d, key) ==
    LET l == CHOOSE x \in d.licenses : x.key = key
    IN ReminderActivations_delete(CascadeLicense(d, key), l.reminder_activations)

----------------------------------------------------------------------------
(* Role *)

\* Role._pre_save up to and including the duplicate query (its first await).
Role_pre_save(d, role) ==
    IF ~(0 <= role.tier_level /\ role.tier_level <= 100) THEN "FieldError"
    ELSE IF ~(0 <= role.tier_power /\ role.tier_power <= 9) THEN "FieldError"
    ELSE IF role.tier_level # 0
            /\ \E r \in d.roles : /\ r.guild = role.guild
                                  /\ r.tier_level = role.tier_level
                                  /\ r.tier_power = role.tier_power
    THEN "IntegrityError"
    ELSE "ok"

\* INSERT INTO roles: the primary key is the role id alone; foreign key to guilds.
Role_insert(d, role) ==
    IF \/ \E r \in d.roles : r.id = role.id
       \/ \A g \in d.guilds : g.id # role.guild
    THEN Raise("IntegrityError", d)
    ELSE Ok([d EXCEPT !.roles = @ \cup {role}])

\* UPDATE roles ... WHERE id = role.id
Role_update(d, role) ==
    Ok([d EXCEPT !.roles = {IF r.id = role.id THEN role ELSE r : r \in @}])

----------------------------------------------------------------------------
(* RolePacket and PacketRole *)

MAXIMUM_ROLES == 20
MaxNameLength == 50

\* RolePacket._pre_save
RolePacket_pre_save(p) ==
    IF MaxNameLength < Len(p.name) THEN "FieldError"
    ELSE IF p.default_role_duration < 0 THEN "FieldError"
    ELSE "ok"

\* RolePacket.create: _pre_save, then INSERT (unique_together name, guild).
RolePacket_create(d, p) ==
    IF RolePacket_pre_save(p) # "ok" THEN Raise(RolePacket_pre_save(p), d)
    ELSE IF \/ \E q \in d.packets : q.guild = p.guild /\ q.name = p.name
            \/ \A g \in d.guilds : g.id # p.guild
    THEN Raise("IntegrityError", d)
    ELSE Ok([d EXCEPT !.packets = @ \cup {p}])

\* role_packet.packet_roles: the rows of one packet
EntriesOf(d, pkt) == {x \in d.packetRoles : x.role_packet = pkt}

PacketOf(d, pkt) == CHOOSE p \in d.packets : <<p.guild, p.name>> = pkt
RoleOf(d, rid) == CHOOSE r \in d.roles : r.id = rid

\* PacketRole._pre_save up to and including the count query (its first await).
PacketRole_pre_save_count(d, pr) ==
    IF pr.duration < 0 THEN "FieldError"
    ELSE IF Cardinality(EntriesOf(d, pr.role_packet)) + 1 > MAXIMUM_ROLES
    THEN "IntegrityError"
    ELSE "ok"

\* The guild check switched off.
PacketRole_pre_save_guild_Off(d, pr) == "ok"

\* PacketRole._pre_save after the count query: the guilds of the role and of
\* the packet, fetched when they are not loaded, have to be the same.
PacketRole_pre_save_guild(d, pr) ==
    IF RoleOf(d, pr.role).guild # PacketOf(d, pr.role_packet).guild
    THEN "IntegrityError"
    ELSE "ok"

\* PacketRole._pre_save
PacketRole_pre_save(d, pr) ==
    IF PacketRole_pre_save_count(d, pr) # "ok" THEN PacketRole_pre_save_count(d, pr)
    ELSE PacketRole_pre_save_guild(d, pr)

\* INSERT INTO packet_roles (unique_together role, role_packet).
PacketRole_insert(d, pr) ==
    IF \E x \in d.packetRoles : x.role = pr.role /\ x.role_packet = pr.role_packet
    THEN Raise("IntegrityError", d)
    ELSE Ok([d EXCEPT !.packetRoles = @ \cup {pr}])

\* The duration PacketRole.create hands to the row: `if not duration` takes the
\* packet's default for a missing duration and for 0.
\* given = FALSE stands for a call without the duration keyword.
PacketRole_duration(d, pkt, given, duration) ==
    IF ~given \/ duration = 0 THEN PacketOf(d, pkt).default_role_duration
    ELSE duration

\* PacketRole.create: the duration, then _pre_save, then INSERT.
PacketRole_create(d, role, pkt, given, duration) ==
    LET pr == [role |-> role, role_packet |-> pkt,
               duration |-> PacketRole_duration(d, pkt, given, duration)]
    IN IF PacketRole_pre_save(d, pr) # "ok" THEN Raise(PacketRole_pre_save(d, pr), d)
       ELSE PacketRole_insert(d, pr)

\* UPDATE packet_roles ... WHERE id = the id of the stored entry
PacketRole_update(d, pr) ==
    Ok([d EXCEPT !.packetRoles =
           {x \in @ : ~(x.role = pr.role /\ x.role_packet = pr.role_packet)} \cup {pr}])

\* packet_role.save() on a stored entry: _pre_save, then UPDATE.
PacketRole_save(d, pr) ==
    IF PacketRole_pre_save(d, pr) # "ok" THEN Raise(PacketRole_pre_save(d, pr), d)
    ELSE PacketRole_update(d, pr)

----------------------------------------------------------------------------
(* LicensedMember and LicensedRole: plain rows, no hooks *)

Null == -1             \* expiration = NULL: a permanent grant

\* LicensedMember.create: INSERT (unique_together member_id, license).
LicensedMember_create(d, member, key) ==
    IF \/ \E m \in d.licensedMembers : m.member_id = member /\ m.license = key
       \/ \A l \in d.licenses : l.key # key
    THEN Raise("IntegrityError", d)
    ELSE Ok([d EXCEPT !.licensedMembers = @ \cup {[member_id |-> member, license |-> key]}])

\* LicensedRole.create: INSERT (unique_together role, licensed_member).
LicensedRole_create(d, role, lm, expiration) ==
    IF \/ \E x \in d.licensedRoles : x.role = role /\ x.licensed_member = lm
       \/ \A r \in d.roles : r.id # role
       \/ lm \notin d.licensedMembers
    THEN Raise("IntegrityError", d)
    ELSE Ok([d EXCEPT !.licensedRoles = @ \cup
                {[role |-> role, licensed_member |-> lm, expiration |-> expiration]}])

----------------------------------------------------------------------------
(* The Licenses cog *)

\* Licenses.check_all_active_licenses: a placeholder, its body is `pass`.
check_all_active_licenses(d, p) == [db |-> d, port |-> p]

\* Licenses.remove_role: a placeholder, its body is `pass`.
remove_role(d, p, member, role) == [db |-> d, port |-> p]

\* Licenses.redeem: a placeholder, its body is `pass`.
redeem(d, p, key, member) == [db |-> d, port |-> p]

\* Licenses.activate_license: a placeholder, its body is `pass`.
activate_license(d, p, key, role, member) == [db |-> d, port |-> p]

\* The handler without its except clause: the exception leaves the coroutine.
license_expiration_check_NoExcept(d, p, fault) ==
    IF fault
    THEN [db |-> d, port |-> p, logged |-> 0, escaped |-> TRUE]
    ELSE LET r == check_all_active_licenses(d, p)
         IN [db |-> r.db, port |-> r.port, logged |-> 0, escaped |-> FALSE]

\* Licenses.license_expiration_check: the sweep inside try/except Exception.
\* fault: an exception is raised while the sweep runs.  The handler logs it
\* and lets nothing escape to the loop.
license_expiration_check(d, p, fault) ==
    IF fault
    THEN [db |-> d, port |-> p, logged |-> 1, escaped |-> FALSE]
    ELSE LET r == check_all_active_licenses(d, p)
         IN [db |-> r.db, port |-> r.port, logged |-> 0, escaped |-> FALSE]

----------------------------------------------------------------------------
(* Inputs of the calls *)

\* The schedule a caller creates on its own (test_guild_reminders_creation).
SomeActs == {<<DefaultFirstActivation, 60, 0, 0, 0>>}

\* License keys a caller may pass (14 and 13 characters long).
CallerKeys == {"quite_long_key", "quite___short"}
\* Keys generate_single may draw under the default format.
GenKeys == {"Ab3dE-fG5hI-jK7lM-nO9pQ-rS1tU", "Zy8xW-vU6tS-rQ4pO-nM2lK-jI0hG"}

\* uses_left values around every limit License._pre_save tests.
SomeUses == {-1, 0, 1, 2, MAXIMUM_USES_LEFT, MAXIMUM_USES_LEFT + 1}

\* The keys generate_single draws, one per nested save; drawn only when
\* License._pre_save reaches generate_single.
GenChoices(lic) ==
    IF License_field_checks(lic) = "ok" /\ lic.regenerating /\ lic.uses_left = 0
    THEN [1..(RecursionLimit + 1) -> GenKeys]
    ELSE {[i \in 1..(RecursionLimit + 1) |-> "Ab3dE-fG5hI-jK7lM-nO9pQ-rS1tU"]}

\* What a call's record keeps of the database it started from.
Pre == [keys |-> {l.key : l \in licenses}, rems |-> {r.id : r \in reminders},
        guilds |-> {g.id : g \in guilds}]

Done(op, arg, r) ==
    /\ SetDB(r.db)
    /\ last' = [op |-> op, exc |-> r.exc, arg |-> arg, pre |-> Pre]

NoCall == [op |-> "none", exc |-> "ok", arg |-> [x |-> 0], pre |-> [keys |-> {}, rems |-> {}, guilds |-> {}]]

----------------------------------------------------------------------------
(* The calls on the formatter *)

\* LicenseFormatter.is_secure(f) and get_format_permutations(f)
CheckFormat(f) ==
    /\ last' = [op |-> "is_secure", exc |-> "ok",
                arg |-> [format |-> f, secure |-> is_secure(f),
                         permutations |-> get_format_permutations(f)],
                pre |-> Pre]
    /\ UNCHANGED <<prefix_cache, dbvars, saving, adding, redeems, loop, log, port, now>>

\* LicenseFormatter.generate_single(f, branding)
Generate(f, branding, pick) ==
    /\ LET r == generate_single(f, branding, pick)
       IN last' = [op |-> "generate", exc |-> r.exc,
                   arg |-> [format |-> f, branding |-> branding, key |-> r.out],
                   pre |-> Pre]
    /\ UNCHANGED <<prefix_cache, dbvars, saving, adding, redeems, loop, log, port, now>>

----------------------------------------------------------------------------
(* The calls on the data model *)

\* await ReminderActivations.create(...)
CreateReminder(acts) ==
    /\ remSeq < MaxRem
    /\ Done("ReminderActivations.create", [acts |-> acts], ReminderActivations_create(DB, acts))
    /\ UNCHANGED <<prefix_cache, saving, adding, redeems, loop, log, port, now>>

\* reminder_activations.<fields> = acts; await reminder_activations.save()
SaveReminder(rid, acts) ==
    /\ \E r \in reminders : r.id = rid
    /\ Done("ReminderActivations.save", [rid |-> rid, acts |-> acts],
            ReminderActivations_save(DB, rid, acts))
    /\ UNCHANGED <<prefix_cache, saving, adding, redeems, loop, log, port, now>>

\* await reminder_activations.delete()
DeleteReminder(rid) ==
    /\ \E r \in reminders : r.id = rid
    /\ Done("ReminderActivations.delete", [rid |-> rid], ReminderActivations_delete(DB, rid))
    /\ UNCHANGED <<prefix_cache, saving, adding, redeems, loop, log, port, now>>

\* await Guild.create(id=gid[, reminder_activations=rid])
CreateGuild(gid, rid) ==
    /\ rid = None => remSeq < MaxRem
    /\ rid # None => \E r \in reminders : r.id = rid
    /\ Done("Guild.create", [gid |-> gid, rid |-> rid], Guild_create(DB, gid, rid))
    /\ UNCHANGED <<prefix_cache, saving, adding, redeems, loop, log, port, now>>

\* await guild.delete()
DeleteGuild(gid) ==
    /\ \E g \in guilds : g.id = gid
    /\ Done("Guild.delete",
            [gid |-> gid,
             rid |-> (CHOOSE g \in guilds : g.id = gid).reminder_activations,
             roles |-> {r.id : r \in {x \in roles : x.guild = gid}},
             keys |-> {l.key : l \in {x \in licenses : x.guild = gid}}],
            Guild_delete(DB, gid))
    /\ UNCHANGED <<prefix_cache, saving, adding, redeems, loop, log, port, now>>

\* await License.create(key=, guild=, [reminder_activations=,] regenerating=, role_packet=, uses_left=)
CreateLicense(key, gid, rid, regen, pkt, uses) ==
    /\ \E g \in guilds : g.id = gid
    /\ rid = None => remSeq < MaxRem
    /\ rid # None => \E r \in reminders : r.id = rid
    /\ pkt # NoPacket => \E p \in packets : <<p.guild, p.name>> = pkt
    /\ LET lic == [key |-> key, guild |-> gid, reminder_activations |-> rid,
                   regenerating |-> regen, role_packet |-> pkt, uses_left |-> uses]
           arg == [key |-> key, guild |-> gid, reminder_activations |-> rid,
                   regenerating |-> regen, role_packet |-> pkt, uses_left |-> uses,
                   found |-> {l \in licenses : l.key = key}]
       IN \E gen \in GenChoices(lic) :
              Done("License.create", arg, License_create(DB, lic, gen))
    /\ UNCHANGED <<prefix_cache, saving, adding, redeems, loop, log, port, now>>

\* license.regenerating = regen; license.uses_left = uses; await license.save()
SaveLicense(key, regen, uses) ==
    /\ \E l \in licenses : l.key = key
    /\ LET old == CHOOSE l \in licenses : l.key = key
           lic == [old EXCEPT !.regenerating = regen, !.uses_left = uses]
       IN \E gen \in GenChoices(lic) :
              Done("License.save", lic, License_save(DB, lic, TRUE, gen, 1))
    /\ UNCHANGED <<prefix_cache, saving, adding, redeems, loop, log, port, now>>

\* await license.delete()
DeleteLicense(key) ==
    /\ \E l \in licenses : l.key = key
    /\ Done("License.delete", [key |-> key], License_delete(DB, key))
    /\ UNCHANGED <<prefix_cache, saving, adding, redeems, loop, log, port, now>>

\* await Role.create(id=, guild=, tier_level=, tier_power=), first half: the
\* range checks and the duplicate query of _pre_save.
BeginCreateRole(t, role) ==
    /\ saving[t] = Idle
    /\ \E g \in guilds : g.id = role.guild
    /\ IF Role_pre_save(DB, role) = "ok"
       THEN /\ saving' = [saving EXCEPT ![t] = [pc |-> "insert", role |-> role]]
            /\ UNCHANGED <<dbvars, last>>
       ELSE /\ Done("Role.create", role, Raise(Role_pre_save(DB, role), DB))
            /\ UNCHANGED saving
    /\ UNCHANGED <<prefix_cache, adding, redeems, loop, log, port, now>>

\* ... second half, once the query has answered: the INSERT.
FinishCreateRole(t) ==
    /\ saving[t].pc = "insert"
    /\ Done("Role.create", saving[t].role, Role_insert(DB, saving[t].role))
    /\ saving' = [saving EXCEPT ![t] = Idle]
    /\ UNCHANGED <<prefix_cache, adding, redeems, loop, log, port, now>>

\* role.tier_level = ; role.tier_power = ; await role.save() on a stored role
\* (Roles.edit_role), first half: the range checks and the duplicate query.
BeginSaveRole(t, id, tier_level, tier_power) ==
    /\ saving[t] = Idle
    /\ \E r \in roles : r.id = id
    /\ LET role == [RoleOf(DB, id) EXCEPT !.tier_level = tier_level,
                                          !.tier_power = tier_power]
       IN IF Role_pre_save(DB, role) = "ok"
          THEN /\ saving' = [saving EXCEPT ![t] = [pc |-> "update", role |-> role]]
               /\ UNCHANGED <<dbvars, last>>
          ELSE /\ Done("Role.save", [role |-> role, unchanged |-> role \in roles],
                       Raise(Role_pre_save(DB, role), DB))
               /\ UNCHANGED saving
    /\ UNCHANGED <<prefix_cache, adding, redeems, loop, log, port, now>>

\* ... second half, once the query has answered: the UPDATE.
FinishSaveRole(t) ==
    /\ saving[t].pc = "update"
    /\ Done("Role.save", [role |-> saving[t].role, unchanged |-> saving[t].role \in roles],
            Role_update(DB, saving[t].role))
    /\ saving' = [saving EXCEPT ![t] = Idle]
    /\ UNCHANGED <<prefix_cache, adding, redeems, loop, log, port, now>>

\* await RolePacket.create(guild=, name=, default_role_duration=)
CreatePacket(p) ==
    /\ \E g \in guilds : g.id = p.guild
    /\ Done("RolePacket.create",
            [guild |-> p.guild, name |-> p.name,
             default_role_duration |-> p.default_role_duration,
             present |-> \E q \in packets : q.guild = p.guild /\ q.name = p.name],
            RolePacket_create(DB, p))
    /\ UNCHANGED <<prefix_cache, saving, adding, redeems, loop, log, port, now>>

\* await PacketRole.create(role=, role_packet=[, duration=])
CreatePacketRole(role, pkt, given, duration) ==
    /\ \E r \in roles : r.id = role
    /\ \E p \in packets : <<p.guild, p.name>> = pkt
    /\ Done("PacketRole.create",
            [role |-> role, role_packet |-> pkt, given |-> given, duration |-> duration,
             held |-> Cardinality(EntriesOf(DB, pkt)),
             present |-> \E x \in packetRoles : x.role = role /\ x.role_packet = pkt],
            PacketRole_create(DB, role, pkt, given, duration))
    /\ UNCHANGED <<prefix_cache, saving, adding, redeems, loop, log, port, now>>

\* packet_role.duration = duration; await packet_role.save(), on a stored entry.
SavePacketRole(role, pkt, duration) ==
    /\ \E x \in packetRoles : x.role = role /\ x.role_packet = pkt
    /\ Done("PacketRole.save",
            [role |-> role, role_packet |-> pkt, duration |-> duration,
             held |-> Cardinality(EntriesOf(DB, pkt))],
            PacketRole_save(DB, [role |-> role, role_packet |-> pkt, duration |-> duration]))
    /\ UNCHANGED <<prefix_cache, saving, adding, redeems, loop, log, port, now>>

\* await PacketRole.create(...), first half: the duration, the duration check
\* and the count query of _pre_save.
BeginCreatePacketRole(t, role, pkt, given, duration) ==
    /\ adding[t] = NotAdding
    /\ \E r \in roles : r.id = role
    /\ \E p \in packets : <<p.guild, p.name>> = pkt
    /\ LET pr == [role |-> role, role_packet |-> pkt,
                  duration |-> PacketRole_duration(DB, pkt, given, duration)]
           arg == [role |-> role, role_packet |-> pkt, given |-> given, duration |-> duration,
                   held |-> Cardinality(EntriesOf(DB, pkt)),
                   present |-> \E x \in packetRoles : x.role = role /\ x.role_packet = pkt]
       IN IF PacketRole_pre_save_count(DB, pr) = "ok"
          THEN /\ adding' = [adding EXCEPT ![t] = [pc |-> "insert", pr |-> pr, arg |-> arg]]
               /\ UNCHANGED <<dbvars, last>>
          ELSE /\ Done("PacketRole.create", arg, Raise(PacketRole_pre_save_count(DB, pr), DB))
               /\ UNCHANGED adding
    /\ UNCHANGED <<prefix_cache, saving, redeems, loop, log, port, now>>

\* ... second half, once the count has answered: the guild check and the INSERT.
FinishCreatePacketRole(t) ==
    /\ adding[t].pc = "insert"
    /\ Done("PacketRole.create", adding[t].arg,
            IF PacketRole_pre_save_guild(DB, adding[t].pr) # "ok"
            THEN Raise(PacketRole_pre_save_guild(DB, adding[t].pr), DB)
            ELSE PacketRole_insert(DB, adding[t].pr))
    /\ adding' = [adding EXCEPT ![t] = NotAdding]
    /\ UNCHANGED <<prefix_cache, saving, redeems, loop, log, port, now>>

\* await LicensedMember.create(member_id=, license=)
CreateLicensedMember(member, key) ==
    /\ \E l \in licenses : l.key = key
    /\ Done("LicensedMember.create", [member_id |-> member, license |-> key],
            LicensedMember_create(DB, member, key))
    /\ UNCHANGED <<prefix_cache, saving, adding, redeems, loop, log, port, now>>

\* await LicensedRole.create(role=, licensed_member=, expiration=)
CreateLicensedRole(role, lm, expiration) ==
    /\ \E r \in roles : r.id = role
    /\ lm \in licensedMembers
    /\ Done("LicensedRole.create",
            [role |-> role, licensed_member |-> lm, expiration |-> expiration],
            LicensedRole_create(DB, role, lm, expiration))
    /\ UNCHANGED <<prefix_cache, saving, adding, redeems, loop, log, port, now>>

\* A member runs the redeem command with a key.
Redeem(member, key) ==
    /\ LET r == redeem(DB, port, key, member)
           seen == IF \E l \in licenses : l.key = key
                   THEN (CHOOSE l \in licenses : l.key = key).uses_left ELSE Null
       IN /\ SetDB(r.db)
          /\ port' = r.port
          /\ redeems' = redeems \cup {[member |-> member, key |-> key, uses |-> seen]}
          /\ last' = [op |-> "redeem", exc |-> "ok",
                      arg |-> [member |-> member, key |-> key], pre |-> Pre]
    /\ UNCHANGED <<prefix_cache, saving, adding, loop, log, now>>

\* license_expiration_check.start(): the loop waits for the bot, then ticks.
LoopStart ==
    /\ loop.state = "stopped"
    /\ loop' = [loop EXCEPT !.state = "running"]
    /\ UNCHANGED <<prefix_cache, dbvars, saving, adding, redeems, log, port, now, last>>

Expired(d, t) == {lr \in d.licensedRoles : lr.expiration # Null /\ lr.expiration < t}

\* One iteration of the loop.  A loop whose body lets an exception escape stops.
Tick(fault) ==
    /\ loop.state = "running"
    /\ loop.ticks < MaxTicks
    /\ LET r == license_expiration_check(DB, port, fault)
       IN /\ SetDB(r.db)
          /\ port' = r.port
          /\ log' = log + r.logged
          /\ loop' = [state |-> IF r.escaped THEN "failed" ELSE "running",
                      ticks |-> loop.ticks + 1,
                      errors |-> loop.errors + (IF fault THEN 1 ELSE 0),
                      firstError |-> IF fault /\ loop.errors = 0
                                     THEN loop.ticks + 1 ELSE loop.firstError]
          /\ last' = [op |-> "sweep", exc |-> IF r.escaped THEN "Exception" ELSE "ok",
                      arg |-> [fault |-> fault, expired |-> Expired(DB, now)],
                      pre |-> Pre]
    /\ UNCHANGED <<prefix_cache, saving, adding, redeems, now>>

\* A minute passes.
Advance ==
    /\ now < MaxTime
    /\ now' = now + 1
    /\ UNCHANGED <<prefix_cache, dbvars, saving, adding, redeems, loop, log, port, last>>

\* guild.<field> = value; await guild.save(), on a stored guild.
SaveGuild(gid, field, value, validators) ==
    /\ \E g \in guilds : g.id = gid
    /\ LET g == [(CHOOSE x \in guilds : x.id = gid) EXCEPT ![field] = value]
           r == Guild_save(DB, g, validators)
       IN Done("Guild.save", [row |-> g, unchanged |-> r.db.guilds = guilds], r)
    /\ UNCHANGED <<prefix_cache, saving, adding, redeems, loop, log, port, now>>

\* A message in a guild (gid) or a direct message (None): prefix_callable.
GetGuildPrefix(guild) ==
    /\ LET r == get_guild_prefix(DB, prefix_cache, guild)
       IN /\ prefix_cache' = r.cache
          /\ last' = [op |-> "get_guild_prefix", exc |-> "ok",
                      arg |-> [guild |-> guild, prefix |-> r.prefix], pre |-> Pre]
    /\ UNCHANGED <<dbvars, saving, adding, redeems, loop, log, port, now>>

\* on_ready: the prefix cache is repopulated on every (re)connect.
OnReady ==
    /\ prefix_cache' = populate_prefix_cache(DB)
    /\ last' = [op |-> "on_ready", exc |-> "ok", arg |-> [x |-> 0], pre |-> Pre]
    /\ UNCHANGED <<dbvars, saving, adding, redeems, loop, log, port, now>>

\* The prefix command of a cog, invoked by a message in guild gid: the prefix
\* of the message is resolved first (ctx.prefix), then the command body runs.
\* update_cache tells the two cogs apart.
PrefixCommand(op, gid, prefix, validators, update_cache) ==
    LET p == get_guild_prefix(DB, prefix_cache, gid)
        changing == p.prefix # prefix /\ Len(prefix) <= MaxPrefixLength
        r == IF changing
             THEN Guild_get_update(DB, gid, "custom_prefix", prefix, validators)
             ELSE Ok(DB)
    IN /\ Done(op, [guild |-> gid, prefix |-> prefix,
                    success |-> changing /\ r.exc = "ok"], r)
       /\ prefix_cache' = IF changing /\ r.exc = "ok" /\ update_cache
                          THEN update_prefix_cache(p.cache, gid, prefix)
                          ELSE p.cache
       /\ UNCHANGED <<saving, adding, redeems, loop, log, port, now>>

\* cogs/guild.py: prefix
Guild_prefix(gid, prefix, validators) ==
    PrefixCommand("Guild.prefix", gid, prefix, validators, FALSE)

\* cogs/configuration.py: prefix
Configuration_prefix(gid, prefix, validators) ==
    PrefixCommand("Configuration.prefix", gid, prefix, validators, TRUE)

\* cogs/guild.py: license_format ("if True")
Guild_license_format(gid, license_format, validators) ==
    /\ Done("Guild.license_format", [guild |-> gid, format |-> license_format],
            Guild_get_update(DB, gid, "custom_license_format", license_format, validators))
    /\ UNCHANGED <<prefix_cache, saving, adding, redeems, loop, log, port, now>>

\* cogs/configuration.py: license_format
Configuration_license_format(gid, license_format, validators) ==
    /\ Done("Configuration.license_format", [guild |-> gid, format |-> license_format],
            IF is_secure(license_format)
            THEN Guild_get_update(DB, gid, "custom_license_format", license_format, validators)
            ELSE Ok(DB))
    /\ UNCHANGED <<prefix_cache, saving, adding, redeems, loop, log, port, now>>

----------------------------------------------------------------------------
(* Spec: schedules, guilds and licenses, from the empty database *)

Init ==
    /\ SetDBInit
    /\ saving = [t \in Tasks |-> Idle]
    /\ adding = [t \in Tasks |-> NotAdding]
    /\ redeems = {}
    /\ loop = [state |-> "stopped", ticks |-> 0, errors |-> 0, firstError |-> 0]
    /\ log = 0
    /\ port = {}
    /\ prefix_cache = {}
    /\ now = 0
    /\ last = NoCall

\* The valid caller key, a single use, no packet: the plain license of the tests.
PlainKey == "quite_long_key"

Next ==
    \/ \E acts \in SomeActs : CreateReminder(acts)
    \/ \E rid \in RemIds : DeleteReminder(rid)
    \/ \E gid \in GuildIds, rid \in {None} \cup RemIds : CreateGuild(gid, rid)
    \/ \E gid \in GuildIds : DeleteGuild(gid)
    \/ \E gid \in GuildIds, rid \in {None} \cup RemIds :
          CreateLicense(PlainKey, gid, rid, FALSE, NoPacket, 1)
    \/ DeleteLicense(PlainKey)

Spec == Init /\ [][Next]_vars

----------------------------------------------------------------------------
(* SpecLicense: the licenses of one guild, created, saved again and deleted *)

NextLicense ==
    \/ CreateGuild(123, None)
    \/ \E key \in CallerKeys, regen \in BOOLEAN, uses \in SomeUses :
          CreateLicense(key, 123, None, regen, NoPacket, uses)
    \/ \E key \in CallerKeys \cup GenKeys, regen \in BOOLEAN, uses \in SomeUses :
          SaveLicense(key, regen, uses)
    \/ \E key \in CallerKeys \cup GenKeys : DeleteLicense(key)

SpecLicense == Init /\ [][NextLicense]_vars

----------------------------------------------------------------------------
(* SpecRedeem: one guild, its tiered roles, a packet, a license, and redeem *)

TierRoles == [id : {11, 12}, guild : {123}, tier_level : {0, 1}, tier_power : {1}]
Packet1 == [guild |-> 123, name |-> "packet1", default_role_duration |-> 360]
Members == {1, 2}

NextRedeem ==
    \/ CreateGuild(123, None)
    \/ \E t \in Tasks, role \in TierRoles : BeginCreateRole(t, role)
    \/ \E t \in Tasks : FinishCreateRole(t)
    \/ CreatePacket(Packet1)
    \/ \E role \in {11, 12} : CreatePacketRole(role, <<123, "packet1">>, FALSE, 0)
    \/ CreateLicense(PlainKey, 123, None, FALSE, <<123, "packet1">>, 1)
    \/ \E m \in Members : Redeem(m, PlainKey)

SpecRedeem == Init /\ [][NextRedeem]_vars

----------------------------------------------------------------------------
(* SpecSweep: timed grants, the clock and the expiration loop *)

Role11 == [id |-> 11, guild |-> 123, tier_level |-> 0, tier_power |-> 1]
Expirations == {Null} \cup (0..MaxTime)

NextSweep ==
    \/ CreateGuild(123, None)
    \/ BeginCreateRole(1, Role11)
    \/ FinishCreateRole(1)
    \/ CreateLicense(PlainKey, 123, None, FALSE, NoPacket, 1)
    \/ CreateLicensedMember(1, PlainKey)
    \/ \E e \in Expirations :
          CreateLicensedRole(11, [member_id |-> 1, license |-> PlainKey], e)
    \/ Advance
    \/ LoopStart
    \/ \E fault \in BOOLEAN : Tick(fault)

SpecSweep == Init /\ [][NextSweep]_vars

----------------------------------------------------------------------------
(* SpecCascade: two guilds with rows in every table, and Guild.delete *)

GuildRoles == {[id |-> 11, guild |-> 123, tier_level |-> 0, tier_power |-> 1],
               [id |-> 21, guild |-> 456, tier_level |-> 0, tier_power |-> 1]}

NextCascade ==
    \/ \E gid \in GuildIds : CreateGuild(gid, None)
    \/ \E role \in GuildRoles : BeginCreateRole(1, role)
    \/ FinishCreateRole(1)
    \/ \E gid \in GuildIds :
          CreatePacket([guild |-> gid, name |-> "packet1", default_role_duration |-> 360])
    \/ \E role \in {11, 21}, gid \in GuildIds :
          CreatePacketRole(role, <<gid, "packet1">>, FALSE, 0)
    \/ \E gid \in GuildIds, rid \in {None} \cup {g.reminder_activations : g \in guilds} :
          CreateLicense(PlainKey, gid, rid, FALSE, <<123, "packet1">>, 1)
    \/ CreateLicensedMember(1, PlainKey)
    \/ \E role \in {11, 21} :
          CreateLicensedRole(role, [member_id |-> 1, license |-> PlainKey], Null)
    \/ \E gid \in GuildIds : DeleteGuild(gid)

SpecCascade == Init /\ [][NextCascade]_vars

----------------------------------------------------------------------------
(* SpecSchedule: one schedule at a time, created with any activations, saved  *)
(* again and deleted                                                          *)

\* Activation values: negative, disabled, and three distinct enabled ones.
ActValues == {-1, 0, 1, 2, 3}
\* Schedules with all five activations enabled and strictly descending
\* (test_guild_reminders_activation_values).
DescendingActs == {<<5, 4, 3, 2, 1>>, <<100, 99, 98, 97, 96>>}
\* The activations a caller may create a schedule with.
AllActs == [1..5 -> ActValues] \cup DescendingActs

\* The activations written by a save: the wrong orders of
\* test_guild_reminders_activation_order scaled into ActValues, a disabled
\* first activation, a negative value and two valid schedules.
SavedActs == {<<5, 4, 3, 2, 5>>, <<2, 0, 5, 0, 0>>, <<5, 0, 4, 0, 0>>,
              <<5, 0, 0, 0, 5>>, <<0, 0, 0, 0, 0>>, <<3, -1, 0, 0, 0>>,
              <<5, 4, 3, 2, 1>>, <<1, 0, 0, 0, 0>>}

NextSchedule ==
    \/ \E acts \in AllActs : reminders = {} /\ CreateReminder(acts)
    \/ \E rid \in RemIds, acts \in SavedActs : SaveReminder(rid, acts)
    \/ \E rid \in RemIds : DeleteReminder(rid)

SpecSchedule == Init /\ [][NextSchedule]_vars

----------------------------------------------------------------------------
(* SpecRole: the roles of two guilds, created by two commands at once and   *)
(* saved again                                                              *)

\* Roles 11 and 12 of guild 123 and role 22 of guild 456 (test_role_duplicate_tiers),
\* with tiers disabled (0) or at level 1, all of tier power 1.
RoleChoices == {r \in [id : {11, 12, 22}, guild : GuildIds, tier_level : {0, 1}, tier_power : {1}] :
                   r.guild = IF r.id = 22 THEN 456 ELSE 123}

NextRole ==
    \/ \E gid \in GuildIds : CreateGuild(gid, None)
    \/ \E t \in Tasks, role \in RoleChoices : BeginCreateRole(t, role)
    \/ \E t \in Tasks : FinishCreateRole(t)
    \/ \E id \in {11, 12, 22}, tl \in {0, 1} : BeginSaveRole(1, id, tl, 1)
    \/ FinishSaveRole(1)

SpecRole == Init /\ [][NextRole]_vars

----------------------------------------------------------------------------
(* SpecPacketCap: one packet filled role by role, by two commands at once *)

\* Role ids 1 .. MAXIMUM_ROLES + 1 (test_packet_role_maximum_roles).
CapRoleIds == 1..(MAXIMUM_ROLES + 1)
CapRole(id) == [id |-> id, guild |-> 123, tier_level |-> 0, tier_power |-> 1]

\* The stored roles that are neither in the packet nor being added to it.
FreeRoles(pkt) ==
    {r.id : r \in roles} \ ({x.role : x \in EntriesOf(DB, pkt)}
                              \cup {adding[t].pr.role : t \in Tasks})

\* The guild and the packet are created once; the next role is created when
\* no stored role is left to add.
NextPacketCap ==
    \/ guilds = {} /\ CreateGuild(123, None)
    \/ packets = {} /\ CreatePacket(Packet1)
    \/ \E id \in CapRoleIds :
          /\ id = Cardinality(roles) + 1
          /\ FreeRoles(<<123, "packet1">>) = {}
          /\ BeginCreateRole(1, CapRole(id))
    \/ FinishCreateRole(1)
    \/ \E t \in Tasks, role \in CapRoleIds :
          /\ role \in FreeRoles(<<123, "packet1">>)
          /\ \A r \in FreeRoles(<<123, "packet1">>) : role <= r
          /\ BeginCreatePacketRole(t, role, <<123, "packet1">>, FALSE, 0)
    \/ \E t \in Tasks : FinishCreatePacketRole(t)

SpecPacketCap == Init /\ [][NextPacketCap]_vars

----------------------------------------------------------------------------
(* SpecPacketSave: a packet filled one entry at a time, and entries saved again *)

\* The durations an entry is saved with: the packet's default and another one.
SaveDurations == {360, 720}

\* The first entry of the packet is saved again.
NextPacketSave ==
    \/ guilds = {} /\ CreateGuild(123, None)
    \/ packets = {} /\ CreatePacket(Packet1)
    \/ \E id \in CapRoleIds :
          /\ id = Cardinality(roles) + 1
          /\ FreeRoles(<<123, "packet1">>) = {}
          /\ BeginCreateRole(1, CapRole(id))
    \/ FinishCreateRole(1)
    \/ \E role \in CapRoleIds :
          /\ role \in FreeRoles(<<123, "packet1">>)
          /\ CreatePacketRole(role, <<123, "packet1">>, FALSE, 0)
    \/ \E duration \in SaveDurations : SavePacketRole(1, <<123, "packet1">>, duration)

SpecPacketSave == Init /\ [][NextPacketSave]_vars

----------------------------------------------------------------------------
(* SpecPacket: the packets of two guilds and the roles put into them, by    *)
(* commands that run to completion and by one that is overtaken            *)

\* A name of 51 characters (test_role_packet_name).
LongName == "AAAAAAAAAAAAAAAAAAAAAAAAAAAAAAAAAAAAAAAAAAAAAAAAAAA"

\* The packets a caller may create: packet1 in both guilds, once more with
\* another default duration, and the invalid packets of the tests.
PacketChoices ==
    {[guild |-> 123, name |-> "packet1", default_role_duration |-> 360],
     [guild |-> 123, name |-> "packet1", default_role_duration |-> 0],
     [guild |-> 456, name |-> "packet1", default_role_duration |-> 360],
     [guild |-> 123, name |-> "", default_role_duration |-> 720],
     [guild |-> 123, name |-> LongName, default_role_duration |-> 720],
     [guild |-> 123, name |-> "negative", default_role_duration |-> -1]}

\* The durations a caller may pass: negative, zero and positive.
SomeDurations == {-1, 0, 999}

NextPacket ==
    \/ \E gid \in GuildIds : (\A g \in guilds : g.id # gid) /\ CreateGuild(gid, None)
    \/ \E role \in GuildRoles : BeginCreateRole(1, role)
    \/ FinishCreateRole(1)
    \/ \E p \in PacketChoices : CreatePacket(p)
    \/ \E role \in {11, 21}, gid \in GuildIds, given \in BOOLEAN, duration \in SomeDurations :
          /\ ~given => duration = 0
          /\ CreatePacketRole(role, <<gid, "packet1">>, given, duration)
    \/ \E role \in {11, 21}, gid \in GuildIds :
          BeginCreatePacketRole(2, role, <<gid, "packet1">>, FALSE, 0)
    \/ FinishCreatePacketRole(2)

SpecPacket == Init /\ [][NextPacket]_vars

----------------------------------------------------------------------------
(* SpecKey: licenses of two guilds created under keys of every length *)

\* The keys of test_license_key and test_license_key_unique: 14, 13, 0 and
\* 20 characters long.
KeyChoices == {"quite_long_key", "quite___short", "", "AAAAAAAAAAAAAAAAAAAA"}

NextKey ==
    \/ \E gid \in GuildIds : (\A g \in guilds : g.id # gid) /\ CreateGuild(gid, None)
    \/ \E key \in KeyChoices, gid \in GuildIds, uses \in {1, 2},
          rid \in {None} \cup {g.reminder_activations : g \in guilds} :
          CreateLicense(key, gid, rid, FALSE, NoPacket, uses)
    \/ \E key \in KeyChoices : DeleteLicense(key)

SpecKey == Init /\ [][NextKey]_vars

----------------------------------------------------------------------------
(* SpecFormat: formats written placeholder by placeholder and checked *)

MaxPlaceholders == 16   \* placeholder characters in a format

\* The formats the writing starts from: the empty one, the example of the
\* class comment, a run of digits, and the branding token.
StartFormats ==
    {<<>>, BrandingToken,
     <<"D", "D", "D", "D", "-", "L", "L", "L", "L">>,
     <<"D", "D", "D", "D", "-", "U", "U", "U", "U", "-", "L", "L", "L", "L", "-",
       "U", "L", "D", "S">>}

Rank(c) ==
    CASE c = "D" -> 1 [] c = "U" -> 2 [] c = "L" -> 3 [] c = "A" -> 4
      [] c = "S" -> 5 [] c = "-" -> 6 [] OTHER -> 0

Placeholders(f) == Len(SelectSeq(f, LAMBDA c : CharsetSize(c) # 0))

\* The format under the pen: placeholders are appended in the order D, U, L,
\* A, S; a dash ends them, and a last branding token may follow the dash.
CanAppend(f, tok) ==
    IF f = <<>> THEN tok # BrandingToken
    ELSE IF tok = BrandingToken THEN f[Len(f)] = "-"
    ELSE /\ f[Len(f)] = "}" => f = BrandingToken
         /\ Rank(tok[1]) >= Rank(f[Len(f)])
         /\ f[Len(f)] # "-"
         /\ CharsetSize(tok[1]) # 0 => Placeholders(f) < MaxPlaceholders

\* What is appended; lowercase placeholders come with the start formats only.
FormatTokens == {<<"D">>, <<"U">>, <<"A">>, <<"S">>, <<"-">>, BrandingToken}

NextFormat ==
    \/ \E f \in StartFormats : last.op = "none" /\ CheckFormat(f)
    \/ \E tok \in FormatTokens :
          /\ last.op = "is_secure"
          /\ CanAppend(last.arg.format, tok)
          /\ CheckFormat(last.arg.format \o tok)

SpecFormat == Init /\ [][NextFormat]_vars

----------------------------------------------------------------------------
(* SpecGenerate: keys generated from formats and brandings *)

\* The empty format, formats with the branding token in front, in the middle,
\* at the end and alone, and secure formats of test_guild_custom_license_format.
GenFormats ==
    {<<>>,
     <<"{", "b", "r", "a", "n", "d", "i", "n", "g", "}", "D", "D", "D", "D", "-", "L", "L", "L", "L">>,
     <<"D", "D", "D", "D", "{", "b", "r", "a", "n", "d", "i", "n", "g", "}", "L", "L", "L", "L">>,
     <<"U", "U", "U", "U", "-", "S", "S", "{", "b", "r", "a", "n", "d", "i", "n", "g", "}">>,
     <<"{", "b", "r", "a", "n", "d", "i", "n", "g", "}">>,
     <<"A", "A", "A", "A", "-", "A", "A", "A", "A", "-", "A", "A", "A", "A", "-", "A", "A", "A", "A">>,
     <<"A", "A", "!", "A", "?", "A", "{", "A", "}", "A", "*", "A", "-", "A", "+", "A", "1", "A", "2", "A", "3", "A", "4", "A", "A">>,
     <<"S", "S", "S", "S", "S", "S", "S", "S", "S", "S", "S", "S", "S", "S", "S", "S", "S">>,
     <<"D", "D", "D", "D", "D", "-", "D", "D", "D", "D", "D", "-", "D", "D", "D", "D", "D", "-", "D", "D", "D", "D", "D", "-", "D", "D", "D", "D", "D">>,
     <<"L", "L", "L", "L", "-", "{", "b", "r", "a", "n", "d", "i", "n", "g", "}", "-", "U", "U", "U", "U", "-", "{", "b", "r", "a", "n", "d", "i", "n", "g", "}">>,
     <<"{", "b", "r", "a", "n", "d", "i", "n", "g", "}", "{", "b", "r", "a", "n", "d", "i", "n", "g", "}", "D", "D", "D", "D">>,
     <<"A", "A", "A", "A", "A", "A", "A", "A", "A", "A", "A", "A", "A", "A">>}

\* No branding, a branding, and brandings that hold braces.
Brandings == {<<>>, <<"L", "i", "c", "e", "n", "s", "y", "-">>, <<"{", "x", "}">>, <<"x", "{", "b", "r", "a", "n", "d", "i", "n", "g", "}">>}

\* What secrets.choice may draw: two characters of every charset.
DrawnChars(c) ==
    CASE c = "D" -> {"0", "7"}
      [] c = "U" -> {"Q", "Z"}
      [] c = "L" -> {"q", "z"}
      [] c = "A" -> {"k", "7"}
      [] c = "S" -> {"*", "{"}

Picks ==
    {[D |-> d, U |-> u, L |-> l, A |-> a, S |-> p] :
        d \in DrawnChars("D"), u \in DrawnChars("U"), l \in DrawnChars("L"),
        a \in DrawnChars("A"), p \in DrawnChars("S")}

NextGenerate ==
    \E f \in GenFormats, branding \in Brandings, pick \in Picks : Generate(f, branding, pick)

SpecGenerate == Init /\ [][NextGenerate]_vars

----------------------------------------------------------------------------
(* SpecGuild: the settings of one guild, its commands and the prefix cache *)

\* test_guild_custom_prefix: a prefix, and one of 11 characters
PrefixChoices == {"!", "long_prefix"}

\* test_guild_custom_license_format: the empty format, a secure one, one that
\* is not secure, and a secure one of 101 characters
FormatChoices ==
    {<<>>,
     <<"D", "D", "D", "D", "D", "-", "D", "D", "D", "D", "D", "-", "D", "D", "D", "D", "D", "-", "D", "D", "D", "D", "D", "-", "D", "D", "D", "D", "D">>,
     <<"A", "A">>,
     [i \in 1..(MaxFormatLength + 1) |-> IF i <= min_license_length THEN "A" ELSE "-"]}

\* test_guild_branding: 50 and 51 characters
BrandingChoices ==
    {"tttttttttttttttttttttttttttttttttttttttttttttttttt", "ttttttttttttttttttttttttttttttttttttttttttttttttttt"}

\* test_guild_timezone
TimezoneChoices == {-13, 14, 15}

\* test_guild_language
LanguageChoices == {"hr", "xx"}

\* The guild of the tests; the other guild id is never stored.
TheGuild == 123

\* The format is changed while the branding, timezone and language are the
\* defaults, and these are changed while the format is the default.
OtherDefaults ==
    \A g \in guilds : g.license_branding = "" /\ g.timezone = 0 /\ g.language = "en"

FormatDefault == \A g \in guilds : g.custom_license_format = <<>>

NextGuild ==
    \/ guilds = {} /\ CreateGuild(TheGuild, None)
    \/ \E v \in PrefixChoices \cup {""} : SaveGuild(TheGuild, "custom_prefix", v, FALSE)
    \/ /\ OtherDefaults
       /\ \E v \in FormatChoices, val \in BOOLEAN :
             SaveGuild(TheGuild, "custom_license_format", v, val)
    \/ FormatDefault /\ \E v \in BrandingChoices : SaveGuild(TheGuild, "license_branding", v, FALSE)
    \/ FormatDefault /\ \E v \in TimezoneChoices : SaveGuild(TheGuild, "timezone", v, FALSE)
    \/ FormatDefault /\ \E v \in LanguageChoices : SaveGuild(TheGuild, "language", v, FALSE)
    \/ \E v \in PrefixChoices \cup {DEFAULT_PREFIX} : Guild_prefix(TheGuild, v, FALSE)
    \/ \E v \in PrefixChoices \cup {DEFAULT_PREFIX} : Configuration_prefix(TheGuild, v, FALSE)
    \/ OtherDefaults /\ \E v \in FormatChoices : Guild_license_format(TheGuild, v, FALSE)
    \/ /\ OtherDefaults
       /\ \E v \in FormatChoices, val \in BOOLEAN :
             Configuration_license_format(TheGuild, v, val)
    \/ \E guild \in GuildIds \cup {None} : GetGuildPrefix(guild)
    \/ OnReady

SpecGuild == Init /\ [][NextGuild]_vars

----------------------------------------------------------------------------
(* Claims about redemption (SpecRedeem) *)

UsesLeft(key) == (CHOOSE l \in licenses : l.key = key).uses_left
GrantsOf(key) == {m \in licensedMembers : m.license = key}

\* C1: once two members have redeemed the same key, the first of them having
\* found it with uses_left = 1, the license has uses_left = 0 and exactly one
\* of them holds a grant of it (never two grants, never a negative count).
C1_OneGrantOfLastUse ==
    \A a \in redeems, b \in redeems :
        (a.member # b.member /\ a.key = b.key /\ a.uses = 1 /\ b.uses \in {0, 1}) =>
            /\ UsesLeft(a.key) = 0
            /\ Cardinality(GrantsOf(a.key)) = 1

\* The member's grants of the roles in rs.
HeldOf(member, rs) ==
    {lr \in licensedRoles : lr.licensed_member.member_id = member /\ lr.role \in rs}

PacketRolesOf(key) ==
    LET l == CHOOSE x \in licenses : x.key = key
    IN {pr.role : pr \in {x \in packetRoles : x.role_packet = l.role_packet}}

\* C5: once a member has redeemed a license whose packet holds two roles of one
\* guild with the same tier level > 0 and the same tier power, the member holds
\* exactly one grant among the two and a removal of the other role was issued.
C5_TierConflictResolved ==
    \A rd \in redeems : rd.uses # Null =>
        \A r1 \in roles, r2 \in roles :
            ( /\ r1.id # r2.id
              /\ {r1.id, r2.id} \subseteq PacketRolesOf(rd.key)
              /\ r1.guild = r2.guild
              /\ r1.tier_level > 0
              /\ r1.tier_level = r2.tier_level
              /\ r1.tier_power = r2.tier_power ) =>
            /\ Cardinality(HeldOf(rd.member, {r1.id, r2.id})) = 1
            /\ \E r \in {r1.id, r2.id} :
                  /\ HeldOf(rd.member, {r}) = {}
                  /\ <<rd.member, r>> \in port

----------------------------------------------------------------------------
(* Claims about the expiration sweep (SpecSweep) *)

\* C6: right after a sweep tick that ran without a fault, no grant whose
\* expiration was set and in the past when the tick began is still stored, and
\* the removal of its role from its member has been issued.
C6_ExpiredRevokedByTick ==
    (last.op = "sweep" /\ ~last.arg.fault) =>
        \A lr \in last.arg.expired :
            /\ lr \notin licensedRoles
            /\ <<lr.licensed_member.member_id, lr.role>> \in port

\* C7: an exception raised while the sweep runs never stops the loop, and each
\* one is logged: once an error has occurred the loop is still running and the
\* log holds one record per error.
C7_SweepErrorCaught ==
    loop.errors > 0 => (loop.state = "running" /\ log = loop.errors)

\* C7 witness: a tick raised, and a later tick ran the sweep again.
C7_Witness ==
    /\ loop.errors > 0
    /\ loop.ticks > loop.firstError
    /\ last.op = "sweep"

----------------------------------------------------------------------------
(* Claims about regeneration and uses_left (SpecLicense) *)

\* The last call saved a stored regenerating license with uses_left = 0.
RegenExhausted ==
    /\ last.op = "License.save"
    /\ last.arg.regenerating
    /\ last.arg.uses_left = 0

ActsOf(rid) == (CHOOSE r \in reminders : r.id = rid).acts

\* C2: after a regenerating license was saved with uses_left = 0, exactly one
\* license exists that did not exist before; its key is new and it references
\* a schedule row that did not exist before and carries the activations of
\* the exhausted license's schedule.
C2_OneReplacementMinted ==
    RegenExhausted =>
        LET new == {l \in licenses : l.key \notin last.pre.keys}
        IN /\ Cardinality(new) = 1
           /\ \A l \in new :
                 /\ l.key # last.arg.key
                 /\ l.reminder_activations \notin last.pre.rems
                 /\ \E r \in reminders :
                       /\ r.id = l.reminder_activations
                       /\ r.acts = ActsOf(last.arg.reminder_activations)

\* C3: after a regenerating license was saved with uses_left = 0, a license
\* that did not exist before is stored with uses_left = 1, in the guild and
\* with the role packet of the exhausted one.
C3_ReplacementReady ==
    RegenExhausted =>
        \E l \in licenses :
            /\ l.key \notin last.pre.keys
            /\ l.uses_left = 1
            /\ l.guild = last.arg.guild
            /\ l.role_packet = last.arg.role_packet

\* The row breaks a limit on uses_left.
UsesOutOfRange(lic) ==
    \/ lic.uses_left < 0
    \/ lic.uses_left > MAXIMUM_USES_LEFT
    \/ (lic.regenerating /\ lic.uses_left > 1)

\* C4: every stored license has 0 <= uses_left <= 1,000,000 and is not both
\* regenerating and multi-use; a create or save of a row that breaks this
\* raised FieldError.
C4_UsesLeftWithinLimits ==
    /\ \A l \in licenses : ~UsesOutOfRange(l)
    /\ (last.op \in {"License.create", "License.save"} /\ UsesOutOfRange(last.arg))
           => last.exc = "FieldError"

\* C4 witness: a stored license was saved as regenerating with two uses and
\* refused, next to a license stored at the upper limit.
C4_Witness ==
    /\ last.op = "License.save"
    /\ last.arg.regenerating
    /\ last.arg.uses_left = 2
    /\ last.exc = "FieldError"
    /\ \E l \in licenses : l.key = last.arg.key /\ l.uses_left = MAXIMUM_USES_LEFT

----------------------------------------------------------------------------
(* Claims about guilds and their schedules (Spec, SpecCascade) *)

RemStored(rid) == \E r \in reminders : r.id = rid

\* The rows of the six dependent tables that belonged to the deleted guild are gone.
GuildRowsGone(a) ==
    /\ \A g \in guilds : g.id # a.gid
    /\ \A r \in roles : r.guild # a.gid
    /\ \A p \in packets : p.guild # a.gid
    /\ \A pr \in packetRoles : pr.role_packet[1] # a.gid /\ pr.role \notin a.roles
    /\ \A l \in licenses : l.guild # a.gid
    /\ \A m \in licensedMembers : m.license \notin a.keys
    /\ \A lr \in licensedRoles :
          lr.role \notin a.roles /\ lr.licensed_member.license \notin a.keys

\* C8: right after Guild.delete, no Role, RolePacket, PacketRole, License,
\* LicensedMember or LicensedRole of that guild is stored, and neither is the
\* schedule the guild referenced.
C8_GuildDeleteCascades ==
    last.op = "Guild.delete" =>
        (GuildRowsGone(last.arg) /\ ~RemStored(last.arg.rid))

\* The cascade alone, without the schedule.
C8_RowsCascade ==
    last.op = "Guild.delete" => GuildRowsGone(last.arg)

\* C9: a Guild.create without a schedule that succeeded added exactly one
\* schedule row, with the default activations, and the new guild references
\* it; a Guild.create given a schedule added no schedule row and, when it
\* succeeded, the guild references the given one; two guilds never reference
\* the same schedule row.
C9_GuildOwnsOneSchedule ==
    /\ (last.op = "Guild.create" /\ last.exc = "ok" /\ last.arg.rid = None) =>
          \E r \in reminders :
              /\ r.id \notin last.pre.rems
              /\ r.acts = DefaultActs
              /\ {x.id : x \in reminders} = last.pre.rems \cup {r.id}
              /\ \E g \in guilds : g.id = last.arg.gid /\ g.reminder_activations = r.id
    /\ (last.op = "Guild.create" /\ last.arg.rid # None) =>
          /\ {x.id : x \in reminders} = last.pre.rems
          /\ last.exc = "ok" =>
                \E g \in guilds : /\ g.id = last.arg.gid
                                  /\ g.reminder_activations = last.arg.rid
    /\ \A g1 \in guilds, g2 \in guilds :
          g1.id # g2.id => g1.reminder_activations # g2.reminder_activations

\* C9 witness: a guild was just created around a schedule the caller made,
\* next to a guild whose schedule was created for it.
C9_Witness ==
    /\ last.op = "Guild.create"
    /\ last.exc = "ok"
    /\ last.arg.rid # None
    /\ \E g \in guilds, r \in reminders :
          /\ g.id # last.arg.gid
          /\ r.id = g.reminder_activations
          /\ r.acts = DefaultActs

\* C10: deleting a schedule a guild references raised IntegrityError and left
\* the row stored; right after Guild.delete the deleted guild's schedule is
\* gone and every remaining guild's schedule is stored.
C10_ScheduleFollowsGuild ==
    /\ ( /\ last.op = "ReminderActivations.delete"
         /\ \E g \in guilds : g.reminder_activations = last.arg.rid ) =>
          (last.exc = "IntegrityError" /\ RemStored(last.arg.rid))
    /\ last.op = "Guild.delete" =>
          /\ ~RemStored(last.arg.rid)
          /\ \A g \in guilds : RemStored(g.reminder_activations)

----------------------------------------------------------------------------
(* Claims about schedule validation (SpecSchedule) *)

\* The last call created or saved a schedule.
ScheduleWritten ==
    last.op \in {"ReminderActivations.create", "ReminderActivations.save"}

\* C11: a create or save of a schedule raised FieldError whenever an activation
\* is negative or, among the activations > 0, an earlier one is equal to or
\* smaller than a later one; a schedule of five positive, strictly descending
\* activations was accepted.
C11_ScheduleOrderEnforced ==
    ScheduleWritten =>
        LET a == last.arg.acts IN
        /\ ( \/ \E i \in 1..5 : a[i] < 0
             \/ \E i \in 1..5, j \in 1..5 :
                   i < j /\ a[i] > 0 /\ a[j] > 0 /\ a[i] <= a[j] )
              => last.exc = "FieldError"
        /\ ( /\ \A i \in 1..5 : a[i] > 0
             /\ \A i \in 1..5, j \in 1..5 : i < j => a[i] > a[j] )
              => last.exc = "ok"

\* C11 witness: a schedule whose enabled activations are separated by disabled
\* ones and repeat a value was refused at creation.
C11_Witness ==
    /\ last.op = "ReminderActivations.create"
    /\ last.arg.acts = <<3, 0, 0, 0, 3>>
    /\ last.exc = "FieldError"

\* C12: a create or save of a schedule whose first activation is <= 0 raised
\* FieldError, and no stored schedule has a first activation <= 0.
C12_FirstActivationPositive ==
    /\ (ScheduleWritten /\ last.arg.acts[1] <= 0) => last.exc = "FieldError"
    /\ \A r \in reminders : r.acts[1] > 0

\* C13: a create or save of a schedule in which an enabled (> 0) activation
\* comes after a disabled (0) one raised FieldError.
C13_EnabledFormPrefix ==
    ( /\ ScheduleWritten
      /\ \E i \in 1..5, j \in 1..5 :
            i < j /\ last.arg.acts[i] = 0 /\ last.arg.acts[j] > 0 )
        => last.exc = "FieldError"

\* C14: right after a call that raised FieldError the stored schedules, guilds
\* and licenses are the ones stored before the call, and a refused save did
\* not write the refused activations.
C14_RejectedLeavesNoTrace ==
    last.exc = "FieldError" =>
        /\ {r.id : r \in reminders} = last.pre.rems
        /\ {g.id : g \in guilds} = last.pre.guilds
        /\ {l.key : l \in licenses} = last.pre.keys
        /\ last.op = "ReminderActivations.save" =>
              \A r \in reminders : r.id = last.arg.rid => r.acts # last.arg.acts

----------------------------------------------------------------------------
(* Claims about role tiers (SpecRole) *)

\* C15: no two distinct stored roles of one guild with tier_level > 0 have the
\* same tier_level and the same tier_power.
C15_TierPairUniquePerGuild ==
    \A r1 \in roles, r2 \in roles :
        (r1.id # r2.id /\ r1.guild = r2.guild /\ r1.tier_level > 0) =>
            ~(r1.tier_level = r2.tier_level /\ r1.tier_power = r2.tier_power)

\* C16: a save of a stored role with tier_level > 0 whose tier fields are the
\* stored ones succeeded.
C16_ResaveOwnTierAccepted ==
    ( /\ last.op = "Role.save"
      /\ last.arg.unchanged
      /\ last.arg.role.tier_level > 0 )
        => last.exc = "ok"

----------------------------------------------------------------------------
(* Claims about packets and their roles (SpecPacketCap, SpecPacket) *)

\* C17: no packet holds more than 20 PacketRoles; a create that found its
\* packet holding 19 was accepted, and one that found it holding 20 raised
\* IntegrityError.
C17_PacketHoldsAtMostTwenty ==
    /\ \A p \in packets :
          Cardinality(EntriesOf(DB, <<p.guild, p.name>>)) <= MAXIMUM_ROLES
    /\ (last.op = "PacketRole.create" /\ last.arg.held = MAXIMUM_ROLES - 1)
          => last.exc = "ok"
    /\ (last.op = "PacketRole.create" /\ last.arg.held = MAXIMUM_ROLES)
          => last.exc = "IntegrityError"

\* The last call was a PacketRole.create that passed the duration and count
\* checks: its duration is not negative and its packet is below the cap.
PacketRoleWouldPair ==
    /\ last.op = "PacketRole.create"
    /\ ~(last.arg.given /\ last.arg.duration < 0)
    /\ last.arg.held < MAXIMUM_ROLES

\* C18: every stored PacketRole joins a role and a packet of the same guild,
\* and no packet holds a role twice; a create that would pair a role with a
\* packet of another guild, or with a packet that holds the role, raised
\* IntegrityError.
C18_PacketRoleWithinOneGuild ==
    /\ \A pr \in packetRoles :
          /\ \E r \in roles : r.id = pr.role /\ r.guild = pr.role_packet[1]
          /\ \E q \in packets : <<q.guild, q.name>> = pr.role_packet
    /\ \A x \in packetRoles, y \in packetRoles :
          (x.role = y.role /\ x.role_packet = y.role_packet) => x = y
    /\ ( /\ PacketRoleWouldPair
         /\ \/ RoleOf(DB, last.arg.role).guild # last.arg.role_packet[1]
            \/ last.arg.present )
          => last.exc = "IntegrityError"

\* C18 witness: next to a stored PacketRole, a create pairing role 21 of guild
\* 456 with packet1 of guild 123 was refused.
C18_Witness ==
    /\ PacketRoleWouldPair
    /\ last.arg.role = 21
    /\ last.arg.role_packet = <<123, "packet1">>
    /\ last.exc = "IntegrityError"
    /\ \E pr \in packetRoles : pr.role = 11 /\ pr.role_packet = <<123, "packet1">>

\* C19: a PacketRole created without a duration stores its packet's default
\* duration, one created with a duration d >= 0 stores d, and a create with a
\* negative duration raised FieldError.
C19_DurationAsGiven ==
    last.op = "PacketRole.create" =>
        /\ (last.arg.given /\ last.arg.duration < 0) => last.exc = "FieldError"
        /\ last.exc = "ok" =>
              \E pr \in packetRoles :
                  /\ pr.role = last.arg.role
                  /\ pr.role_packet = last.arg.role_packet
                  /\ pr.duration = IF last.arg.given THEN last.arg.duration
                                   ELSE PacketOf(DB, last.arg.role_packet).default_role_duration

\* C20: a RolePacket.create raised FieldError for an empty name, a name of
\* more than 50 characters or a negative default duration, raised
\* IntegrityError for a valid packet whose name its guild already uses, and
\* otherwise stored the packet (the same name in another guild included).
C20_RolePacketValidated ==
    last.op = "RolePacket.create" =>
        LET bad == \/ Len(last.arg.name) = 0
                   \/ Len(last.arg.name) > 50
                   \/ last.arg.default_role_duration < 0
        IN /\ bad => last.exc = "FieldError"
           /\ (~bad /\ last.arg.present) => last.exc = "IntegrityError"
           /\ (~bad /\ ~last.arg.present) =>
                 /\ last.exc = "ok"
                 /\ \E q \in packets : /\ q.guild = last.arg.guild
                                        /\ q.name = last.arg.name
                                        /\ q.default_role_duration = last.arg.default_role_duration

----------------------------------------------------------------------------
(* Claims about license keys (SpecKey) *)

\* C21: every stored license has a key of at least 14 characters and no two
\* stored licenses have the same key; a License.create with a shorter key
\* raised FieldError, and one with a key that was already stored, in whichever
\* guild, raised IntegrityError and left the stored license as it was.
C21_LicenseKeysUniqueAndLong ==
    /\ \A l \in licenses : Len(l.key) >= 14
    /\ \A l1 \in licenses, l2 \in licenses : l1.key = l2.key => l1 = l2
    /\ last.op = "License.create" =>
          /\ Len(last.arg.key) < 14 => last.exc = "FieldError"
          /\ (Len(last.arg.key) >= 14 /\ last.arg.found # {}) =>
                /\ last.exc = "IntegrityError"
                /\ last.arg.found \subseteq licenses

\* C21 witness: a create in one guild under the key of a license of the other
\* guild, with another number of uses, was refused.
C21_Witness ==
    /\ last.op = "License.create"
    /\ last.exc = "IntegrityError"
    /\ \E l \in last.arg.found :
          l.guild # last.arg.guild /\ l.uses_left # last.arg.uses_left

----------------------------------------------------------------------------
(* Claims about the formatter (SpecFormat, SpecGenerate) *)

Count(f, c) == Len(SelectSeq(f, LAMBDA x : x = c))

RECURSIVE BigPow(_, _, _)
\* n * k^e
BigPow(n, k, e) == IF e = 0 THEN n ELSE BigPow(BigMul(n, k), k, e - 1)

\* 10^#D * 26^#U * 26^#L * 62^#A * 32^#S
CharsetProduct(f) ==
    BigPow(BigPow(BigPow(BigPow(BigPow(One, 10, Count(f, "D")), 26, Count(f, "U")),
                         26, Count(f, "L")), 62, Count(f, "A")), 32, Count(f, "S"))

\* C22: get_format_permutations is the product of the charset sizes (D 10,
\* U 26, L 26, A 62, S 32) over the placeholder characters of the format,
\* branding tokens and literals counting for nothing, and is_secure is true
\* exactly when the format has at least 14 characters and that product is at
\* least 10^24; "DDDD-LLLL" gives 10^4 * 26^4 = 4,569,760,000.
C22_SecureIffLongAndManyPermutations ==
    last.op = "is_secure" =>
        /\ last.arg.permutations = CharsetProduct(last.arg.format)
        /\ last.arg.secure <=>
              ( /\ Len(last.arg.format) >= 14
                /\ BigGE(CharsetProduct(last.arg.format), <<0, 0, 0, 0, 0, 0, 1>>) )
        /\ last.arg.format = <<"D", "D", "D", "D", "-", "L", "L", "L", "L">>
              => last.arg.permutations = <<0, 6976, 45>>

\* C22 witness: a format of sixteen symbols behind a branding token was found
\* secure.
C22_Witness ==
    /\ last.op = "is_secure"
    /\ last.arg.secure
    /\ Count(last.arg.format, "S") = 16
    /\ IsPrefix(BrandingToken, last.arg.format)

RECURSIVE Matches(_, _, _)
\* key is the format f with every branding token replaced by the branding,
\* every placeholder by a character of its charset, and the rest in place.
Matches(f, branding, key) ==
    IF f = <<>> THEN key = <<>>
    ELSE IF IsPrefix(BrandingToken, f)
    THEN /\ IsPrefix(branding, key)
         /\ Matches(SubSeq(f, Len(BrandingToken) + 1, Len(f)), branding,
                    SubSeq(key, Len(branding) + 1, Len(key)))
    ELSE /\ key # <<>>
         /\ IF f[1] \in PlaceholderChars THEN key[1] \in Charset(f[1]) ELSE key[1] = f[1]
         /\ Matches(Tail(f), branding, Tail(key))

\* C23: a key that generate returned is its format (the default format for
\* the empty one) with every branding token replaced by the branding, every
\* placeholder by a character of its charset and every other character in
\* place.
C23_KeyFollowsFormat ==
    (last.op = "generate" /\ last.exc = "ok") =>
        Matches(IF last.arg.format = <<>> THEN default_license_format ELSE last.arg.format,
                last.arg.branding, last.arg.key)

\* C26: generate returned a key, without raising, for every format that
\* is_secure accepts.
C26_SecureFormatGenerates ==
    (last.op = "generate" /\ is_secure(last.arg.format)) => last.exc = "ok"

\* C24: every stored custom license format is empty or is_secure, whichever
\* operation stored it (a guild save or a license_format command).
C24_StoredFormatSecure ==
    \A g \in guilds : g.custom_license_format = <<>> \/ is_secure(g.custom_license_format)

\* What a guild save is said to accept.
GuildAcceptable(g) ==
    /\ Len(g.custom_prefix) <= MaxPrefixLength
    /\ Len(g.license_branding) <= MaxBrandLength
    /\ g.timezone \in TimezoneRange
    /\ g.language \in LANGUAGES
    /\ \/ g.custom_license_format = <<>>
       \/ is_secure(g.custom_license_format)
          /\ Len(g.custom_license_format) <= MaxFormatLength

\* C25: a guild save is accepted exactly when its prefix, branding, timezone,
\* language and license format are acceptable; any other save raises FieldError
\* and leaves the stored guild as it was.
C25_GuildSaveValidated ==
    last.op = "Guild.save" =>
        IF GuildAcceptable(last.arg.row) THEN last.exc = "ok"
        ELSE last.exc = "FieldError" /\ last.arg.unchanged

\* C30: the get_guild_prefix that follows a successful prefix command of
\* either cog returns the prefix the command stored for that guild, and no
\* call returns the empty string.
C30_PrefixCacheCoherent ==
    [][(last'.op = "get_guild_prefix"
        => /\ last'.arg.prefix # ""
           /\ (/\ last.op \in {"Guild.prefix", "Configuration.prefix"}
               /\ last.arg.success
               /\ last'.arg.guild = last.arg.guild
               /\ last.arg.guild \in {g.id : g \in guilds})
              => last'.arg.prefix = last.arg.prefix)]_vars

\* C27: saving or creating a regenerating license with uses_left = 0
\* terminates: the chain of replacement saves never exhausts the stack.
C27_RegenerationTerminates ==
    (/\ last.op \in {"License.save", "License.create"}
     /\ last.arg.regenerating
     /\ last.arg.uses_left = 0)
    => last.exc # "RecursionError"

\* The guilds and licenses that reference the schedule row rid.
OwnersOf(rid) ==
    {<<"guild", g.id>> : g \in {x \in guilds : x.reminder_activations = rid}}
    \cup {<<"license", l.key>> : l \in {x \in licenses : x.reminder_activations = rid}}

\* C28: no schedule row is referenced by more than one owner (guilds and
\* licenses together), and deleting a license neither fails nor removes a
\* schedule row that a guild references.
C28_ScheduleOwnedOnce ==
    /\ \A r \in reminders : Cardinality(OwnersOf(r.id)) <= 1
    /\ last.op = "License.delete" =>
          /\ last.exc = "ok"
          /\ \A g \in guilds : \E r \in reminders : r.id = g.reminder_activations

\* C29: saving a stored packet entry again, with a valid duration, is
\* accepted when its packet holds exactly MAXIMUM_ROLES entries.
C29_ResaveAtLimitAccepted ==
    (/\ last.op = "PacketRole.save"
     /\ last.arg.held = MAXIMUM_ROLES
     /\ last.arg.duration >= 0)
    => last.exc = "ok"

====
